---- MODULE Spec2Model ----
(***************************************************************************)
(* ccusage-monitor: the usage-projection engine (src/src/core.ts), the     *)
(* date/time helpers it is built on (datetime.ts) and the monitor loop     *)
(* (src/src/mod.ts).                                                       *)
(*                                                                         *)
(* Conventions of the model                                                *)
(*  - an instant (Date.getTime()) is an integer number of minutes; seconds *)
(*    and milliseconds are not modelled;                                   *)
(*  - a time zone is an IANA name with a fixed UTC offset in minutes (no   *)
(*    daylight-saving transitions inside the modelled days);               *)
(*  - Intl's hour field is read as 0..23;                                  *)
(*  - numbers the code computes in floating point are exact rationals      *)
(*    <<numerator, denominator>>;                                          *)
(*  - an optional value (undefined / null) is the empty sequence <<>> or   *)
(*    the empty string, a present value v is <<v>>;                        *)
(*  - a function that may throw returns [threw |-> BOOLEAN, val |-> ...].  *)
(***************************************************************************)
EXTENDS Integers, Sequences, FiniteSets, TLC

VARIABLES
    hostZone,        \* Intl.DateTimeFormat().resolvedOptions().timeZone of the host
    pc,              \* position of main() / of the function under call
    monitorOptions,  \* mod.ts: monitorOptions (plan, resetHour, timezone)
    tokenLimit,      \* mod.ts: let tokenLimit
    data,            \* mod.ts: the payload of this tick's runCcusage()
    tick,            \* mod.ts: the values main() derives in one loop iteration
    args,            \* arguments of the function under call
    result,          \* its return value
    clock,           \* the wall clock new Date() reads, in minutes
    cursorHidden     \* whether the terminal's cursor is hidden (ESC[?25l / ESC[?25h)

vars == <<hostZone, pc, monitorOptions, tokenLimit, data, tick, args, result,
          clock, cursorHidden>>

----------------------------------------------------------------------------
(* Bounds of the model *)

\* longest block list handed to a function of core.ts
MaxBlocks == 2

\* longest block list a fetch of the monitor loop returns
MaxFetched == 2

----------------------------------------------------------------------------
(* types.ts *)

PlanType == {"pro", "max5", "max20", "custom_max"}

\* an optional ISO string: absent, unparseable, or a parseable one denoting
\* instant t, with (tz) or without a trailing offset / Z
NoString == [kind |-> "absent", t |-> 0, tz |-> FALSE]
BadString == [kind |-> "bad", t |-> 0, tz |-> FALSE]
IsoString(t, tz) == [kind |-> "iso", t |-> t, tz |-> tz]

CcusageBlock(s, e, tok, a, g) ==
    [startTime |-> s, actualEndTime |-> e, totalTokens |-> tok,
     isActive |-> a, isGap |-> g]

\* data.blocks: absent, or a list
NoBlocks == [present |-> FALSE, list |-> <<>>]
Blocks(l) == [present |-> TRUE, list |-> l]

\* block.totalTokens || 0
TokensOf(block) ==
    IF block.totalTokens = <<>> THEN 0 ELSE block.totalTokens[1]

\* all lists over U of length 0..n
RECURSIVE ListsUpTo(_, _)
ListsUpTo(U, n) ==
    IF n = 0 THEN {<<>>}
    ELSE LET shorter == ListsUpTo(U, n - 1)
         IN  shorter \cup {Append(l, b) : l \in {x \in shorter : Len(x) = n - 1}, b \in U}

----------------------------------------------------------------------------
(* core.ts: getTokenLimit *)

RECURSIVE MaxTokensLoop(_, _, _)
MaxTokensLoop(blocks, i, maxTokens) ==
    IF i > Len(blocks) THEN maxTokens
    ELSE LET block == blocks[i]
             tokens == TokensOf(block)
         IN  IF ~block.isGap /\ ~block.isActive /\ tokens > maxTokens
             THEN MaxTokensLoop(blocks, i + 1, tokens)
             ELSE MaxTokensLoop(blocks, i + 1, maxTokens)

\* faulty variant: the scan forgets to exclude active blocks
RECURSIVE MaxTokensLoopCountsActive(_, _, _)
MaxTokensLoopCountsActive(blocks, i, maxTokens) ==
    IF i > Len(blocks) THEN maxTokens
    ELSE LET block == blocks[i]
             tokens == TokensOf(block)
         IN  IF ~block.isGap /\ tokens > maxTokens
             THEN MaxTokensLoopCountsActive(blocks, i + 1, tokens)
             ELSE MaxTokensLoopCountsActive(blocks, i + 1, maxTokens)

limits(plan) ==
    CASE plan = "pro" -> 7000
      [] plan = "max5" -> 35000
      [] plan = "max20" -> 140000
      [] plan = "custom_max" -> 7000

\* faulty variant: the limit is derived from the blocks whenever blocks are supplied
getTokenLimitAnyPlan(plan, blocks) ==
    IF blocks.present
    THEN LET maxTokens == MaxTokensLoop(blocks.list, 1, 0)
         IN  IF maxTokens > 0 THEN maxTokens ELSE 7000
    ELSE limits(plan)

\* faulty variant: the scan of custom_max counts active blocks
getTokenLimitCountsActive(plan, blocks) ==
    IF plan = "custom_max" /\ blocks.present
    THEN LET maxTokens == MaxTokensLoopCountsActive(blocks.list, 1, 0)
         IN  IF maxTokens > 0 THEN maxTokens ELSE 7000
    ELSE limits(plan)

getTokenLimit(plan, blocks) ==
    IF plan = "custom_max" /\ blocks.present
    THEN LET maxTokens == MaxTokensLoop(blocks.list, 1, 0)
         IN  IF maxTokens > 0 THEN maxTokens ELSE 7000
    ELSE limits(plan)

----------------------------------------------------------------------------
(* datetime.ts *)

\* the IANA names Intl accepts in the model, with their UTC offset in minutes
Zones == {"UTC", "Asia/Tokyo", "America/Anchorage", "Asia/Kolkata"}

ZoneOffset(zone) ==
    CASE zone = "UTC" -> 0
      [] zone = "Asia/Tokyo" -> 540
      [] zone = "America/Anchorage" -> 0 - 540
      [] zone = "Asia/Kolkata" -> 330

\* new Intl.DateTimeFormat("en-US", {timeZone}) does not throw
ValidZone(timezone) == timezone \in Zones

DateTime(date, zoneName) == [date |-> date, zoneName |-> zoneName]

Threw == [threw |-> TRUE, val |-> <<>>]
Returned(v) == [threw |-> FALSE, val |-> v]

\* Date's local-time fields are those of the host's zone
LocalOf(t) == t + ZoneOffset(hostZone)
FromLocal(l) == l - ZoneOffset(hostZone)

\* ToIntegerOrInfinity of a rational: the fraction is dropped, towards zero
Trunc(q) ==
    IF q[1] >= 0 THEN q[1] \div q[2] ELSE 0 - ((0 - q[1]) \div q[2])

fromISO(isoString) ==
    IF isoString.kind = "bad" THEN Threw
    ELSE Returned(DateTime(isoString.t, IF isoString.tz THEN hostZone ELSE ""))

setZone(dt, timezone) ==
    IF ValidZone(timezone) THEN DateTime(dt.date, timezone) ELSE dt

\* duration: [minutes : rational, hours : Int, days : Int], 0 for an absent field
plus(dt, duration) ==
    LET afterMinutes == LocalOf(dt.date) + Trunc(duration.minutes)
        afterHours == afterMinutes + 60 * duration.hours
        afterDays == afterHours + 1440 * duration.days
    IN  DateTime(FromLocal(afterDays), dt.zoneName)

minus(dt, duration) ==
    plus(dt, [minutes |-> <<0 - duration.minutes[1], duration.minutes[2]>>,
              hours |-> 0 - duration.hours,
              days |-> 0 - duration.days])

\* startOf(dt, "day"): setHours(0, 0, 0, 0)
startOf(dt) ==
    LET l == LocalOf(dt.date)
    IN  DateTime(FromLocal(l - (l % 1440)), dt.zoneName)

\* set(dt, {hour}): setHours(hour)
set(dt, hour) ==
    LET l == LocalOf(dt.date)
    IN  DateTime(FromLocal(l - ((l % 1440) \div 60) * 60 + hour * 60), dt.zoneName)

getHour(dt) ==
    IF dt.zoneName # ""
    THEN ((dt.date + ZoneOffset(dt.zoneName)) % 1440) \div 60
    ELSE (LocalOf(dt.date) % 1440) \div 60

getMinute(dt) ==
    IF dt.zoneName # ""
    THEN (dt.date + ZoneOffset(dt.zoneName)) % 60
    ELSE LocalOf(dt.date) % 60

getZoneName(dt) == dt.zoneName

valueOf(dt) == dt.date

\* diff(dt1, dt2, "minutes").minutes
diff(dt1, dt2) == dt1.date - dt2.date

NoDuration == [minutes |-> <<0, 1>>, hours |-> 0, days |-> 0]

----------------------------------------------------------------------------
(* core.ts: getNextResetTime *)

DefaultResetHours == <<4, 9, 14, 18, 23>>

\* faulty variant: the boundary minute is not accepted (strictly later entries only)
RECURSIVE FindNextResetHourStrict(_, _, _, _)
FindNextResetHourStrict(resetHours, i, currentHour, currentMinute) ==
    IF i > Len(resetHours) THEN <<>>
    ELSE LET hour == resetHours[i]
         IN  IF currentHour < hour
             THEN <<hour>>
             ELSE FindNextResetHourStrict(resetHours, i + 1, currentHour, currentMinute)

\* the for loop over resetHours: <<hour>> of the first match, <<>> for null
RECURSIVE FindNextResetHour(_, _, _, _)
FindNextResetHour(resetHours, i, currentHour, currentMinute) ==
    IF i > Len(resetHours) THEN <<>>
    ELSE LET hour == resetHours[i]
         IN  IF currentHour < hour \/ (currentHour = hour /\ currentMinute = 0)
             THEN <<hour>>
             ELSE FindNextResetHour(resetHours, i + 1, currentHour, currentMinute)

getNextResetTime(currentTime, customResetHour, timezoneStr) ==
    LET timezone == IF timezoneStr # "" THEN timezoneStr ELSE hostZone
        \* setZone catches Intl's RangeError itself and returns its argument,
        \* so the catch of lines 145-150 is never entered
        targetTime == setZone(currentTime, timezone)
        resetHours == IF customResetHour # <<>> THEN <<customResetHour[1]>>
                      ELSE DefaultResetHours
        currentHour == getHour(targetTime)
        currentMinute == getMinute(targetTime)
        found == FindNextResetHour(resetHours, 1, currentHour, currentMinute)
        nextReset ==
            IF found = <<>>
            THEN set(startOf(plus(targetTime, [NoDuration EXCEPT !.days = 1])),
                     resetHours[1])
            ELSE set(startOf(targetTime), found[1])
        currentZone == getZoneName(currentTime)
        targetZone == getZoneName(targetTime)
    IN  IF currentZone # "" /\ currentZone # targetZone
        THEN setZone(nextReset, currentZone)
        ELSE nextReset

----------------------------------------------------------------------------
(* Exact arithmetic for the numbers the code holds in floating point *)

RECURSIVE GCD(_, _)
GCD(a, b) == IF b = 0 THEN a ELSE GCD(b, a % b)

\* the rational n / d, d > 0, in lowest terms
Rat(n, d) ==
    LET g == GCD(IF n >= 0 THEN n ELSE 0 - n, d)
    IN  <<n \div g, d \div g>>

RatAdd(p, q) == Rat(p[1] * q[2] + q[1] * p[2], p[2] * q[2])
RatDiv(p, q) == Rat(p[1] * q[2], p[2] * q[1])   \* q > 0
RatLess(p, q) == p[1] * q[2] < q[1] * p[2]
Zero == <<0, 1>>

----------------------------------------------------------------------------
(* core.ts: calculateHourlyBurnRate *)

\* the body of the for loop; totalTokens is the running sum
RECURSIVE BurnLoop(_, _, _, _, _)
BurnLoop(blocks, i, currentTime, oneHourAgo, totalTokens) ==
    IF i > Len(blocks) THEN Returned(totalTokens)
    ELSE
    LET block == blocks[i]
        skip == BurnLoop(blocks, i + 1, currentTime, oneHourAgo, totalTokens)
    IN
    IF block.startTime.kind = "absent" THEN skip
    ELSE
    LET parsedStart == fromISO(block.startTime)
    IN
    IF parsedStart.threw THEN Threw
    ELSE IF block.isGap THEN skip
    ELSE
    LET startTime == parsedStart.val
        parsedEnd ==
            IF block.isActive THEN Returned(currentTime)
            ELSE IF block.actualEndTime.kind # "absent"
                 THEN fromISO(block.actualEndTime)
                 ELSE Returned(currentTime)
    IN
    IF parsedEnd.threw THEN Threw
    ELSE
    LET sessionActualEnd == parsedEnd.val
    IN
    IF valueOf(sessionActualEnd) < valueOf(oneHourAgo) THEN skip
    ELSE
    LET sessionStartInHour ==
            IF valueOf(startTime) > valueOf(oneHourAgo) THEN startTime ELSE oneHourAgo
        sessionEndInHour ==
            IF valueOf(sessionActualEnd) < valueOf(currentTime)
            THEN sessionActualEnd ELSE currentTime
    IN
    IF valueOf(sessionEndInHour) <= valueOf(sessionStartInHour) THEN skip
    ELSE
    LET totalSessionDuration == diff(sessionActualEnd, startTime)
        hourDuration == diff(sessionEndInHour, sessionStartInHour)
    IN
    IF totalSessionDuration > 0 /\ hourDuration > 0
    THEN LET sessionTokens == TokensOf(block)
             tokensInHour == Rat(sessionTokens * hourDuration, totalSessionDuration)
         IN  BurnLoop(blocks, i + 1, currentTime, oneHourAgo,
                      RatAdd(totalTokens, tokensInHour))
    ELSE skip

\* faulty variant: the hour's total is returned as the rate
PerMinuteNotDivided(totalTokens) ==
    IF RatLess(Zero, totalTokens) THEN totalTokens ELSE Zero

\* return totalTokens > 0 ? totalTokens / 60 : 0
PerMinute(totalTokens) ==
    IF RatLess(Zero, totalTokens) THEN RatDiv(totalTokens, <<60, 1>>) ELSE Zero

calculateHourlyBurnRate(blocks, currentTime) ==
    IF Len(blocks) = 0 THEN Returned(Zero)
    ELSE LET oneHourAgo == minus(currentTime, [NoDuration EXCEPT !.hours = 1])
             sum == BurnLoop(blocks, 1, currentTime, oneHourAgo, Zero)
         IN  IF sum.threw THEN Threw ELSE Returned(PerMinute(sum.val))

----------------------------------------------------------------------------
(* Values of the variables a specification does not use *)

NoOptions == [plan |-> "pro", resetHour |-> <<>>, timezone |-> "UTC"]
NoData == [ok |-> FALSE, blocks |-> NoBlocks]
NoTick == [kind |-> "none"]

----------------------------------------------------------------------------
(* SpecLimit: getTokenLimit called on every plan and block list *)

LimitTokens == {<<>>, <<0>>, <<30000>>, <<50000>>, <<90000>>}

LimitBlocks ==
    {CcusageBlock(NoString, NoString, tok, a, g) :
        tok \in LimitTokens, a \in BOOLEAN, g \in BOOLEAN}

InitLimit ==
    /\ hostZone = "UTC"
    /\ pc = "call"
    /\ monitorOptions = NoOptions
    /\ tokenLimit = 0
    /\ data = NoData
    /\ tick = NoTick
    /\ args \in [plan : PlanType,
                 blocks : {NoBlocks} \cup {Blocks(l) : l \in ListsUpTo(LimitBlocks, MaxBlocks)}]
    /\ result = <<>>
    /\ clock = 0
    /\ cursorHidden = FALSE

CallGetTokenLimit ==
    /\ pc = "call"
    /\ pc' = "return"
    /\ result' = getTokenLimit(args.plan, args.blocks)
    /\ UNCHANGED <<hostZone, monitorOptions, tokenLimit, data, tick, args, clock, cursorHidden>>

NextLimit == CallGetTokenLimit

SpecLimit == InitLimit /\ [][NextLimit]_vars

\* the completed sessions of a list: neither gap nor active
CompletedTokens(l) ==
    {TokensOf(l[i]) : i \in {j \in 1..Len(l) : ~l[j].isGap /\ ~l[j].isActive}}

SetMax(S) == CHOOSE m \in S : \A x \in S : x <= m

\* C1: for plan custom_max getTokenLimit returns the largest totalTokens
\* (absent = 0) among the blocks that are neither gap nor active, and 7000
\* when there is no such block, when that maximum is 0, or when the block
\* list is absent; active and gap blocks never influence the result.
C1_CustomMaxIsMaxOfCompleted ==
    (pc = "return" /\ args.plan = "custom_max")
        => result = IF ~args.blocks.present THEN 7000
                    ELSE LET m == SetMax(CompletedTokens(args.blocks.list) \cup {0})
                         IN  IF m = 0 THEN 7000 ELSE m

\* completed 50000 next to an active 90000 block: the result is 50000
C1_Witness ==
    /\ pc = "return"
    /\ args.plan = "custom_max"
    /\ args.blocks.present
    /\ result = 50000
    /\ \E i \in 1..Len(args.blocks.list) :
          /\ args.blocks.list[i].isActive
          /\ ~args.blocks.list[i].isGap
          /\ TokensOf(args.blocks.list[i]) = 90000

\* C2: for plan pro, max5 and max20 getTokenLimit returns 7000, 35000 and
\* 140000, whatever the block list (present, empty or absent).
C2_FixedPlansIgnoreBlocks ==
    (pc = "return" /\ args.plan # "custom_max")
        => result = CASE args.plan = "pro" -> 7000
                      [] args.plan = "max5" -> 35000
                      [] args.plan = "max20" -> 140000

\* max5 with a completed 50000-token block in the list still gives 35000
C2_Witness ==
    /\ pc = "return"
    /\ args.plan = "max5"
    /\ args.blocks.present
    /\ 50000 \in CompletedTokens(args.blocks.list)
    /\ result = 35000

----------------------------------------------------------------------------
(* SpecReset: getNextResetTime called on every instant, schedule and zone *)

\* one day, each hour at minutes 0, 1, 30 and 59
ResetInstants == {2880 + 60 * h + m : h \in 0..23, m \in {0, 1, 30, 59}}

ResetHourArgs == {<<>>} \cup {<<h>> : h \in 0..23}

\* a name Intl rejects
BadZone == "Mars/Phobos"

InitReset ==
    /\ hostZone \in Zones
    /\ pc = "call"
    /\ monitorOptions = NoOptions
    /\ tokenLimit = 0
    /\ data = NoData
    /\ tick = NoTick
    /\ args \in [currentTime : {DateTime(t, z) : t \in ResetInstants, z \in Zones \cup {""}},
                 customResetHour : ResetHourArgs,
                 timezoneStr : Zones \cup {"", BadZone}]
    /\ result = <<>>
    /\ clock = 0
    /\ cursorHidden = FALSE

CallGetNextResetTime ==
    /\ pc = "call"
    /\ pc' = "return"
    /\ result' = getNextResetTime(args.currentTime, args.customResetHour, args.timezoneStr)
    /\ UNCHANGED <<hostZone, monitorOptions, tokenLimit, data, tick, args, clock, cursorHidden>>

NextReset == CallGetNextResetTime

SpecReset == InitReset /\ [][NextReset]_vars

\* the zone the call projects into, when the identifier is usable
ProjectionZone == IF args.timezoneStr # "" THEN args.timezoneStr ELSE hostZone

HourIn(t, zone) == ((t + ZoneOffset(zone)) % 1440) \div 60
MinuteIn(t, zone) == (t + ZoneOffset(zone)) % 60

Schedule(customResetHour) ==
    IF customResetHour # <<>> THEN {customResetHour[1]} ELSE {4, 9, 14, 18, 23}

SetMin(S) == CHOOSE m \in S : \A x \in S : m <= x

\* the schedule entry and the day (0 today, 1 tomorrow) for wall clock H:M
Selected(H, M, schedule) ==
    LET qualifying == {h \in schedule : H < h \/ (H = h /\ M = 0)}
    IN  IF qualifying # {} THEN [hour |-> SetMin(qualifying), day |-> 0]
        ELSE [hour |-> SetMin(schedule), day |-> 1]

\* the instant at hour:00 of the host's calendar day of t, plus `day` days
OnHostDay(t, sel) ==
    FromLocal(LocalOf(t) - (LocalOf(t) % 1440) + 1440 * sel.day + 60 * sel.hour)

\* C6: for every valid timezone and every schedule the instant returned by
\* getNextResetTime is not earlier than now (to the minute).
C6_ResetNotBeforeNow ==
    (pc = "return" /\ ValidZone(ProjectionZone))
        => result.date >= args.currentTime.date

\* C7: with H:M read in the projection timezone, the entry is the first h in
\* ascending order with H < h or (H = h and M = 0) on the current day, else
\* the smallest entry on the next day; the day and the hour h:00 are set on
\* the host's wall clock, which is the projection zone's when the two agree.
C7_ScheduleSelection ==
    (pc = "return" /\ ValidZone(ProjectionZone))
        => result.date =
             OnHostDay(args.currentTime.date,
                       Selected(HourIn(args.currentTime.date, ProjectionZone),
                                MinuteIn(args.currentTime.date, ProjectionZone),
                                Schedule(args.customResetHour)))

\* exactly 04:00 in the host's own zone, default schedule: today 04:00, not 09:00
C7_Witness ==
    /\ pc = "return"
    /\ args.customResetHour = <<>>
    /\ ProjectionZone = hostZone
    /\ HourIn(args.currentTime.date, hostZone) = 4
    /\ MinuteIn(args.currentTime.date, hostZone) = 0
    /\ result.date = args.currentTime.date

\* C8: with an invalid timezone identifier the hour and minute used for the
\* selection are the UTC hour and minute of now.
C8_InvalidZoneUsesUTC ==
    (pc = "return" /\ ~ValidZone(ProjectionZone))
        => result.date =
             OnHostDay(args.currentTime.date,
                       Selected(HourIn(args.currentTime.date, "UTC"),
                                MinuteIn(args.currentTime.date, "UTC"),
                                Schedule(args.customResetHour)))

----------------------------------------------------------------------------
(* SpecBurn: calculateHourlyBurnRate called on block lists around one instant *)

BaseInstant == 3000

\* every combination of the fields, for the lists of one block
BurnStarts == {NoString, BadString, IsoString(BaseInstant - 90, TRUE), IsoString(BaseInstant - 30, TRUE)}
BurnEnds == {NoString, BadString, IsoString(BaseInstant - 75, TRUE), IsoString(BaseInstant - 20, TRUE)}
BurnTokens == {<<>>, <<3000>>, <<6000>>}

AllBurnBlocks ==
    {CcusageBlock(s, e, tok, a, g) :
        s \in BurnStarts, e \in BurnEnds, tok \in BurnTokens, a \in BOOLEAN, g \in BOOLEAN}

\* the blocks the longer lists are made of
SomeBurnBlocks ==
    { \* active, started 30 minutes ago
      CcusageBlock(IsoString(BaseInstant - 30, TRUE), NoString, <<3000>>, TRUE, FALSE),
      \* active, started before the window, carrying an end of its own
      CcusageBlock(IsoString(BaseInstant - 90, TRUE), IsoString(BaseInstant - 20, TRUE), <<6000>>, TRUE, FALSE),
      \* completed, straddling the start of the window
      CcusageBlock(IsoString(BaseInstant - 90, TRUE), IsoString(BaseInstant - 20, TRUE), <<6000>>, FALSE, FALSE),
      \* completed, wholly before the window
      CcusageBlock(IsoString(BaseInstant - 90, TRUE), IsoString(BaseInstant - 75, TRUE), <<3000>>, FALSE, FALSE),
      \* completed, without an end
      CcusageBlock(IsoString(BaseInstant - 30, TRUE), NoString, <<3000>>, FALSE, FALSE),
      \* gap
      CcusageBlock(IsoString(BaseInstant - 90, TRUE), IsoString(BaseInstant - 20, TRUE), <<6000>>, FALSE, TRUE),
      \* gap with an unparseable start
      CcusageBlock(BadString, NoString, <<3000>>, FALSE, TRUE),
      \* completed with an unparseable end
      CcusageBlock(IsoString(BaseInstant - 30, TRUE), BadString, <<3000>>, FALSE, FALSE) }

InitBurn ==
    /\ hostZone \in {"UTC", "Asia/Kolkata"}
    /\ pc = "call"
    /\ monitorOptions = NoOptions
    /\ tokenLimit = 0
    /\ data = NoData
    /\ tick = NoTick
    /\ args \in [blocks : {<<b>> : b \in AllBurnBlocks} \cup ListsUpTo(SomeBurnBlocks, MaxBlocks),
                 currentTime : {DateTime(BaseInstant, hostZone)}]
    /\ result = <<>>
    /\ clock = 0
    /\ cursorHidden = FALSE

CallCalculateHourlyBurnRate ==
    /\ pc = "call"
    /\ pc' = "return"
    /\ result' = calculateHourlyBurnRate(args.blocks, args.currentTime)
    /\ UNCHANGED <<hostZone, monitorOptions, tokenLimit, data, tick, args, clock, cursorHidden>>

NextBurn == CallCalculateHourlyBurnRate

SpecBurn == InitBurn /\ [][NextBurn]_vars

\* the list is one active, non-gap block of 3000 tokens started 30 minutes ago
SingleActiveBlock ==
    /\ Len(args.blocks) = 1
    /\ args.blocks[1].isActive
    /\ ~args.blocks[1].isGap
    /\ args.blocks[1].startTime.kind = "iso"
    /\ args.blocks[1].startTime.t = args.currentTime.date - 30
    /\ TokensOf(args.blocks[1]) = 3000

\* C3 as stated: for a single active, non-gap block that started exactly 30
\* minutes before now with 3000 tokens the burn rate is 100 tokens per minute.
C3_SingleActiveBlockIs100 ==
    (pc = "return" /\ SingleActiveBlock) => result = Returned(<<100, 1>>)

\* C3 amended: for that block list the burn rate is 3000 / 60 = 50 tokens per
\* minute: the tokens of the trailing hour divided by the 60 minutes of the
\* window, not by the 30 minutes the session has run.
C3_SingleActiveBlockIs50 ==
    (pc = "return" /\ SingleActiveBlock) => result = Returned(<<50, 1>>)

C3_Witness ==
    /\ pc = "return"
    /\ SingleActiveBlock
    /\ ~result.threw
    /\ result.val = <<50, 1>>

----------------------------------------------------------------------------
(* mod.ts: main *)

\* datetime.now()
now == DateTime(clock, hostZone)

\* data.blocks.find((block) => block.isActive): the index, 0 for undefined
RECURSIVE FindActive(_, _)
FindActive(blocks, i) ==
    IF i > Len(blocks) THEN 0
    ELSE IF blocks[i].isActive THEN i
    ELSE FindActive(blocks, i + 1)

\* faulty variant: the auto-switch tests for the wrong plan, so pro never escalates
SwitchedLimitWrongPlan(limit, plan, tokensUsed, blocks) ==
    IF tokensUsed > limit /\ plan = "custom_max"
    THEN LET newLimit == getTokenLimit("custom_max", Blocks(blocks))
         IN  IF newLimit > limit THEN newLimit ELSE limit
    ELSE limit

\* faulty variant: the limit is recomputed in the loop for custom_max as well
SwitchedLimitEveryPlan(limit, plan, tokensUsed, blocks) ==
    IF tokensUsed > limit /\ plan \in {"pro", "custom_max"}
    THEN LET newLimit == getTokenLimit("custom_max", Blocks(blocks))
         IN  IF newLimit > limit THEN newLimit ELSE limit
    ELSE limit

\* faulty variant: the recomputed limit is assigned even when it is smaller
SwitchedLimitAlwaysAssigns(limit, plan, tokensUsed, blocks) ==
    IF tokensUsed > limit /\ plan = "pro"
    THEN getTokenLimit("custom_max", Blocks(blocks))
    ELSE limit

\* lines 99-106: the limit after the auto-switch to custom_max
SwitchedLimit(limit, plan, tokensUsed, blocks) ==
    IF tokensUsed > limit /\ plan = "pro"
    THEN LET newLimit == getTokenLimit("custom_max", Blocks(blocks))
         IN  IF newLimit > limit THEN newLimit ELSE limit
    ELSE limit

\* faulty variant: the notification does not test the tokens used
showSwitchNotificationAnyUsage(tokensUsed, plan, limit) ==
    plan = "pro" /\ limit > 7000

\* lines 203-205: whether the switch to custom_max is announced
showSwitchNotification(tokensUsed, plan, limit) ==
    tokensUsed > 7000 /\ plan = "pro" /\ limit > 7000

\* lines 141-150: the predicted end
PredictedEndTime(currentTime, burnRate, tokensLeft, resetTime) ==
    IF RatLess(Zero, burnRate) /\ tokensLeft > 0
    THEN LET minutesToDepletion == RatDiv(<<tokensLeft, 1>>, burnRate)
         IN  plus(currentTime, [NoDuration EXCEPT !.minutes = minutesToDepletion])
    ELSE resetTime

\* lines 96-250: one iteration of the loop with an active block, from the
\* limit held before it; Threw when fromISO throws on the way
LoopBody(limit, options, blocks, t) ==
    LET activeBlock == blocks[FindActive(blocks, 1)]
        tokensUsed == TokensOf(activeBlock)
        newTokenLimit == SwitchedLimit(limit, options.plan, tokensUsed, blocks)
        usagePercentage ==
            IF newTokenLimit > 0 THEN Rat(tokensUsed * 100, newTokenLimit) ELSE Zero
        tokensLeft == newTokenLimit - tokensUsed
        startTimeStr == activeBlock.startTime
        parsedStart ==
            IF startTimeStr.kind # "absent" THEN fromISO(startTimeStr)
            ELSE Returned(t)
    IN
    IF parsedStart.threw THEN Threw
    ELSE
    LET currentTime ==
            IF startTimeStr.kind # "absent" /\ getZoneName(parsedStart.val) # ""
            THEN setZone(t, getZoneName(parsedStart.val))
            ELSE t
        elapsedMinutes ==
            IF startTimeStr.kind # "absent" THEN diff(currentTime, parsedStart.val) ELSE 0
        burn == calculateHourlyBurnRate(blocks, currentTime)
    IN
    IF burn.threw THEN Threw
    ELSE
    LET burnRate == burn.val
        resetTime == getNextResetTime(currentTime, options.resetHour, options.timezone)
        predictedEndTime == PredictedEndTime(currentTime, burnRate, tokensLeft, resetTime)
    IN
    Returned([kind |-> "rendered",
              tokenLimitBefore |-> limit,
              tokenLimit |-> newTokenLimit,
              tokensUsed |-> tokensUsed,
              usagePercentage |-> usagePercentage,
              tokensLeft |-> tokensLeft,
              elapsedMinutes |-> elapsedMinutes,
              currentTime |-> currentTime,
              burnRate |-> burnRate,
              resetTime |-> resetTime,
              predictedEndTime |-> predictedEndTime,
              showSwitchNotification |->
                  showSwitchNotification(tokensUsed, options.plan, newTokenLimit),
              showExceedNotification |-> tokensUsed > newTokenLimit,
              runOutBeforeReset |-> valueOf(predictedEndTime) < valueOf(resetTime)])

----------------------------------------------------------------------------
(* Spec: the monitor, from the parsed options to its loop *)

\* the instants at which the wall clock is read
LoopClocks == {BaseInstant, BaseInstant + 30}

LoopStart == IsoString(BaseInstant - 30, TRUE)
LoopEarlier == IsoString(BaseInstant - 90, TRUE)
LoopEnd == IsoString(BaseInstant - 20, TRUE)

\* the blocks a fetch is made of
LoopBlocks ==
    { \* active sessions: over and under the pro limit
      CcusageBlock(LoopStart, NoString, <<8000>>, TRUE, FALSE),
      CcusageBlock(LoopStart, NoString, <<4500>>, TRUE, FALSE),
      \* active, without a start
      CcusageBlock(NoString, NoString, <<4500>>, TRUE, FALSE),
      \* active, with an unparseable start
      CcusageBlock(BadString, NoString, <<4500>>, TRUE, FALSE),
      \* flagged gap and active
      CcusageBlock(LoopStart, NoString, <<8000>>, TRUE, TRUE),
      \* completed sessions
      CcusageBlock(LoopEarlier, LoopEnd, <<50000>>, FALSE, FALSE),
      CcusageBlock(LoopEarlier, LoopEnd, <<7500>>, FALSE, FALSE),
      \* completed, with an unparseable end
      CcusageBlock(LoopEarlier, BadString, <<7500>>, FALSE, FALSE),
      \* gap
      CcusageBlock(LoopEarlier, LoopEnd, <<50000>>, FALSE, TRUE) }

\* what runCcusage() resolves to: null, a payload without blocks, a payload
Responses ==
    {NoData, [ok |-> TRUE, blocks |-> NoBlocks]}
        \cup {[ok |-> TRUE, blocks |-> Blocks(l)] : l \in ListsUpTo(LoopBlocks, MaxFetched)}

Init ==
    /\ hostZone \in {"UTC", "Asia/Tokyo"}
    /\ pc = "start"
    /\ monitorOptions \in [plan : PlanType,
                           resetHour : {<<>>, <<13>>},
                           timezone : {"UTC", "Asia/Tokyo"}]
    /\ tokenLimit = 0
    /\ data = NoData
    /\ tick = NoTick
    /\ args = <<>>
    /\ result = <<>>
    /\ clock \in LoopClocks
    /\ cursorHidden = FALSE

\* time passes while main() awaits
Later == {c \in LoopClocks : c >= clock}

\* lines 48-59 for a fixed plan, then lines 63-81 up to the first fetch
StartFixedPlan ==
    /\ pc = "start"
    /\ monitorOptions.plan # "custom_max"
    /\ tokenLimit' = getTokenLimit(monitorOptions.plan, NoBlocks)
    /\ cursorHidden' = TRUE
    /\ pc' = "fetching"
    /\ UNCHANGED <<hostZone, monitorOptions, data, tick, args, result, clock>>

\* line 51: custom_max awaits a fetch of its own first
StartCustomMax ==
    /\ pc = "start"
    /\ monitorOptions.plan = "custom_max"
    /\ pc' = "initialFetch"
    /\ UNCHANGED <<hostZone, monitorOptions, tokenLimit, data, tick, args, result,
                   clock, cursorHidden>>

\* lines 51-56: the initial fetch resolves and the limit is taken from it;
\* data holds initialData until the set-up that follows
InitialLimit ==
    /\ pc = "initialFetch"
    /\ \E initialData \in Responses :
          /\ tokenLimit' = IF initialData.ok /\ initialData.blocks.present
                           THEN getTokenLimit(monitorOptions.plan, initialData.blocks)
                           ELSE getTokenLimit("pro", NoBlocks)
          /\ data' = initialData
    /\ clock' \in Later
    /\ pc' = "limitResolved"
    /\ UNCHANGED <<hostZone, monitorOptions, tick, args, result, cursorHidden>>

\* lines 63-81 after the initial fetch, in the same synchronous stretch: the
\* terminal is set up, the handlers are registered and the first fetch of
\* the loop is under way; initialData is not read again
SetUpAfterInitialFetch ==
    /\ pc = "limitResolved"
    /\ data' = NoData
    /\ cursorHidden' = TRUE
    /\ pc' = "fetching"
    /\ UNCHANGED <<hostZone, monitorOptions, tokenLimit, tick, args, result, clock>>

\* lines 82-86: no data
TickFailed ==
    /\ pc = "fetching"
    /\ \E response \in Responses :
          /\ ~(response.ok /\ response.blocks.present)
          /\ data' = response
    /\ clock' \in Later
    /\ tick' = [kind |-> "failed"]
    /\ pc' = "sleeping"
    /\ UNCHANGED <<hostZone, monitorOptions, tokenLimit, args, result, cursorHidden>>

\* lines 89-94: no active block
TickNoActive ==
    /\ pc = "fetching"
    /\ \E response \in Responses :
          /\ response.ok /\ response.blocks.present
          /\ FindActive(response.blocks.list, 1) = 0
          /\ data' = response
    /\ clock' \in Later
    /\ tick' = [kind |-> "noActive"]
    /\ pc' = "sleeping"
    /\ UNCHANGED <<hostZone, monitorOptions, tokenLimit, args, result, cursorHidden>>

\* lines 96-250: the iteration runs to its sleep
TickRendered ==
    /\ pc = "fetching"
    /\ UNCHANGED <<hostZone, monitorOptions, args, result, cursorHidden>>
    /\ clock' \in Later
    /\ \E response \in Responses :
          /\ response.ok /\ response.blocks.present
          /\ FindActive(response.blocks.list, 1) # 0
          /\ LET body == LoopBody(tokenLimit, monitorOptions, response.blocks.list, now')
             IN  /\ ~body.threw
                 /\ tick' = body.val
                 /\ tokenLimit' = body.val.tokenLimit
          /\ data' = response
    /\ pc' = "sleeping"

\* lines 96-131 and 252-256: the iteration throws after the auto-switch of
\* lines 99-106; the cursor is shown and main() rejects
TickThrows ==
    /\ pc = "fetching"
    /\ UNCHANGED <<hostZone, monitorOptions, args, result>>
    /\ clock' \in Later
    /\ \E response \in Responses :
          /\ response.ok /\ response.blocks.present
          /\ FindActive(response.blocks.list, 1) # 0
          /\ LoopBody(tokenLimit, monitorOptions, response.blocks.list, now').threw
          /\ tokenLimit' =
                SwitchedLimit(tokenLimit, monitorOptions.plan,
                              TokensOf(response.blocks.list[FindActive(response.blocks.list, 1)]),
                              response.blocks.list)
          /\ data' = response
    /\ tick' = [kind |-> "threw"]
    /\ cursorHidden' = FALSE
    /\ pc' = "crashed"

\* faulty variant: the loop goes on only after a rendered tick
WakeOnlyAfterRender ==
    /\ pc = "sleeping"
    /\ tick.kind = "rendered"
    /\ data' = NoData
    /\ tick' = NoTick
    /\ pc' = "fetching"
    /\ UNCHANGED <<hostZone, monitorOptions, tokenLimit, args, result, clock, cursorHidden>>

\* the sleep of 3000 ms ends: line 79, and the next fetch is under way
Wake ==
    /\ pc = "sleeping"
    /\ data' = NoData
    /\ tick' = NoTick
    /\ pc' = "fetching"
    /\ UNCHANGED <<hostZone, monitorOptions, tokenLimit, args, result, clock, cursorHidden>>

\* faulty variant: the handler exits without showing the cursor
cleanupKeepsCursorHidden ==
    /\ pc \in {"fetching", "sleeping"}
    /\ data' = NoData
    /\ tick' = NoTick
    /\ pc' = "stopped"
    /\ UNCHANGED <<hostZone, monitorOptions, tokenLimit, args, result, clock, cursorHidden>>

\* lines 66-75: SIGINT or SIGTERM is handled while main() awaits the fetch or
\* the sleep: the cursor is shown, the screen is cleared and the process exits
cleanup ==
    /\ pc \in {"fetching", "sleeping"}
    /\ cursorHidden' = FALSE
    /\ data' = NoData
    /\ tick' = NoTick
    /\ pc' = "stopped"
    /\ UNCHANGED <<hostZone, monitorOptions, tokenLimit, args, result, clock>>

\* line 51: a signal during the initial fetch of custom_max, before the
\* handlers of lines 74-75 exist, ends the process by its default action
KilledBeforeSetup ==
    /\ pc = "initialFetch"
    /\ pc' = "killed"
    /\ UNCHANGED <<hostZone, monitorOptions, tokenLimit, data, tick, args, result,
                   clock, cursorHidden>>

Next ==
    \/ StartFixedPlan
    \/ StartCustomMax
    \/ InitialLimit
    \/ SetUpAfterInitialFetch
    \/ TickFailed
    \/ TickNoActive
    \/ TickRendered
    \/ TickThrows
    \/ Wake
    \/ cleanup
    \/ KilledBeforeSetup

Spec == Init /\ [][Next]_vars

\* the timer of sleep(3000) fires: a sleeping loop goes on to its next fetch
\* unless a signal ends the process first
FairSpec == Spec /\ WF_vars(Wake)

\* the iteration of this state rendered a snapshot
Rendered == pc = "sleeping" /\ tick.kind = "rendered"

GapIndices(l) == {i \in 1..Len(l) : l[i].isGap}

WithTokens(l, i, tok) == [l EXCEPT ![i].totalTokens = tok]

\* C4: changing the token count of any gap block (also one flagged gap and
\* active) changes neither the burn rate of the tick nor its tokensUsed,
\* tokensLeft and usage percentage.
C4_GapBlocksNeverCount ==
    Rendered =>
        \A i \in GapIndices(data.blocks.list) : \A tok \in {<<>>, <<4500>>, <<90000>>} :
            LET changed == WithTokens(data.blocks.list, i, tok)
                other == LoopBody(tick.tokenLimitBefore, monitorOptions, changed, now)
            IN  /\ calculateHourlyBurnRate(changed, tick.currentTime) = Returned(tick.burnRate)
                /\ ~other.threw
                /\ other.val.tokensUsed = tick.tokensUsed
                /\ other.val.tokensLeft = tick.tokensLeft
                /\ other.val.usagePercentage = tick.usagePercentage

Malformed(l) ==
    \E i \in 1..Len(l) : l[i].startTime.kind = "bad" \/ l[i].actualEndTime.kind = "bad"

\* C5: a fetched block list with an unparseable startTime or actualEndTime
\* never aborts: the tick completes and the loop goes on to its sleep.
C5_MalformedDataNeverAborts ==
    (pc \in {"sleeping", "crashed"} /\ data.ok /\ data.blocks.present
        /\ Malformed(data.blocks.list))
        => (pc = "sleeping" /\ tick.kind \in {"rendered", "noActive"})

Burning == RatLess(Zero, tick.burnRate) /\ tick.tokensLeft > 0

\* C9: the predicted end is now + tokensLeft / burnRate minutes when the burn
\* rate and the tokens left are positive, the reset instant otherwise, and
\* then the run-out-before-reset warning is not raised.
C9_PredictedExhaustion ==
    Rendered =>
        /\ Burning =>
              <<valueOf(tick.predictedEndTime) - valueOf(tick.currentTime), 1>>
                  = RatDiv(<<tick.tokensLeft, 1>>, tick.burnRate)
        /\ ~Burning => tick.predictedEndTime = tick.resetTime
        /\ ~Burning => ~tick.runOutBeforeReset

\* plan pro, quota 7000 at the start of the tick, active block of 8000 tokens
ProOver7000 ==
    /\ Rendered
    /\ monitorOptions.plan = "pro"
    /\ tick.tokenLimitBefore = 7000
    /\ tick.tokensUsed = 8000

\* C10 as stated: in such a tick the exceeded-quota flag is true, whether or
\* not the quota escalates.
C10_ExceededInEitherCase == ProOver7000 => tick.showExceedNotification

\* C10 amended: the flag compares tokensUsed with the quota after the
\* escalation: it is true when no completed non-gap block exceeds 7000 (the
\* quota stays 7000) or the largest one is below 8000, and false when the
\* quota escalates to 8000 or more.
C10_ExceededAgainstEscalatedQuota ==
    ProOver7000 =>
        LET m == SetMax(CompletedTokens(data.blocks.list) \cup {0})
        IN  /\ tick.tokenLimit = IF m > 7000 THEN m ELSE 7000
            /\ tick.showExceedNotification <=> (m < 8000)

\* the quota escalated to 50000 and the flag is down
C10_Witness ==
    /\ ProOver7000
    /\ tick.tokenLimit = 50000
    /\ ~tick.showExceedNotification

\* ---------------------------------------------------------------------------
\* Transient failures (FairSpec)
\* ---------------------------------------------------------------------------

\* the iteration ended at one of the two "continue" statements of lines 83-94
TransientTick == tick.kind \in {"failed", "noActive"}

\* C11: a tick whose fetch fails, whose payload has no blocks or in which no
\* block is active prints its status line and goes to the sleep with the
\* stored quota and the options as they were; the next fetch starts from the
\* same quota with nothing of the failed tick kept, so that a later rendered
\* tick is the snapshot of its own payload, clock and that quota alone; and
\* every such tick is eventually followed by a new fetch, the only other end
\* of the sleep being the stop signal.
C11_TransientFailuresNeverStop ==
    /\ [][(pc = "fetching" /\ tick'.kind \in {"failed", "noActive"})
             => /\ pc' = "sleeping"
                /\ tokenLimit' = tokenLimit
                /\ monitorOptions' = monitorOptions
                /\ cursorHidden']_vars
    /\ [][(pc = "sleeping" /\ TransientTick /\ pc' = "fetching")
             => /\ tokenLimit' = tokenLimit
                /\ monitorOptions' = monitorOptions
                /\ data' = NoData
                /\ tick' = NoTick]_vars
    /\ [][(pc = "fetching" /\ tick'.kind = "rendered")
             => tick' = LoopBody(tokenLimit, monitorOptions,
                                 data'.blocks.list, DateTime(clock', hostZone)).val]_vars
    /\ (pc = "sleeping" /\ TransientTick) ~> (pc = "fetching" \/ pc = "stopped")

\* a failed tick after an escalation: the loop sleeps with the escalated quota
C11_Witness ==
    /\ pc = "sleeping"
    /\ tick.kind = "failed"
    /\ ~data.ok
    /\ monitorOptions.plan = "pro"
    /\ tokenLimit = 50000
    /\ cursorHidden

\* ---------------------------------------------------------------------------
\* Cancellation (Spec)
\* ---------------------------------------------------------------------------

\* the process has ended: by the handler, by the catch of lines 252-256 or by
\* the default action of a signal
Terminated == pc \in {"stopped", "crashed", "killed"}

\* C12: while the cursor is hidden the loop is awaiting its fetch or its sleep
\* and the stop signal can be handled there; the handler runs only at those
\* two points, where the last tick has been printed whole or not begun, and
\* it shows the cursor, clears the screen and ends the process; no step, and
\* so no further fetch, follows termination; and no terminated state has the
\* cursor hidden.
C12_StopSignalRestoresCursor ==
    /\ [](cursorHidden => (pc \in {"fetching", "sleeping"} /\ ENABLED cleanup))
    /\ [][pc' = "stopped"
            => /\ pc \in {"fetching", "sleeping"}
               /\ cursorHidden
               /\ ~cursorHidden'
               /\ tick.kind \in {"none", "failed", "noActive", "rendered"}
               /\ tick' = NoTick]_vars
    /\ [][~Terminated]_vars
    /\ [](Terminated => ~cursorHidden)

\* the signal was handled in a loop whose limit had been raised to 50000
C12_Witness ==
    /\ pc = "stopped"
    /\ monitorOptions.plan = "pro"
    /\ tokenLimit = 50000
    /\ ~cursorHidden

\* ---------------------------------------------------------------------------
\* The stored limit (Spec)
\* ---------------------------------------------------------------------------

\* C13 as stated: with plan custom_max the limit of a rendered tick is
\* getTokenLimit("custom_max", ...) of the blocks fetched in that tick.
C13_CustomMaxRecomputedEveryTick ==
    (Rendered /\ monitorOptions.plan = "custom_max")
        => tick.tokenLimit = getTokenLimit("custom_max", data.blocks)

\* C13: with plan custom_max the limit is computed once, from the payload of
\* the initial fetch (7000 when that fetch fails or has no blocks); no later
\* step changes it, and it is the limit of every rendered tick whatever the
\* tick's own fetch holds.
C13_CustomMaxFixedAtStartup ==
    /\ [][(pc = "initialFetch" /\ pc' = "limitResolved")
            => tokenLimit' = IF data'.ok /\ data'.blocks.present
                             THEN getTokenLimit("custom_max", data'.blocks)
                             ELSE 7000]_vars
    /\ [][(monitorOptions.plan = "custom_max" /\ pc \notin {"start", "initialFetch"})
            => tokenLimit' = tokenLimit]_vars
    /\ []((Rendered /\ monitorOptions.plan = "custom_max")
            => (tick.tokenLimit = tokenLimit /\ tick.tokenLimitBefore = tokenLimit))

\* a tick whose fetch holds a completed session of 50000 tokens is rendered
\* against the 7000 of the start
C13_Witness ==
    /\ Rendered
    /\ monitorOptions.plan = "custom_max"
    /\ tick.tokenLimit = 7000
    /\ tick.tokensUsed = 8000
    /\ getTokenLimit("custom_max", data.blocks) = 50000

\* C14 as stated: the switch notification of a rendered tick is shown exactly
\* when the stored limit was raised in that tick.
C14_FlagIffEscalatedThisTick ==
    Rendered => (tick.showSwitchNotification <=> tick.tokenLimit > tick.tokenLimitBefore)

\* C14: the switch notification of a rendered tick is shown exactly when the
\* plan is pro, the tick's tokens used are above 7000 and the limit stored
\* after the tick's auto-switch is above 7000; so it is shown in every tick
\* that raises the limit, and also in later ticks that leave the raised limit
\* as it is while the tokens used are above 7000.
C14_FlagWhileSwitchedAndOverPro ==
    Rendered
        => /\ tick.showSwitchNotification
                <=> (/\ monitorOptions.plan = "pro"
                     /\ tick.tokensUsed > 7000
                     /\ tick.tokenLimit > 7000)
           /\ tick.tokenLimit > tick.tokenLimitBefore => tick.showSwitchNotification
           /\ (tick.showSwitchNotification /\ tick.tokenLimit = tick.tokenLimitBefore)
                => tick.tokenLimitBefore > 7000

\* a later tick of 8000 tokens under the limit of 50000 raised before: the
\* notification is shown and the limit is not raised
C14_Witness ==
    /\ Rendered
    /\ tick.showSwitchNotification
    /\ tick.tokensUsed = 8000
    /\ tick.tokenLimitBefore = 50000
    /\ tick.tokenLimit = 50000

\* the limit that lines 99-106 leave, given the limit before and the payload
\* of a tick that has an active block
Escalated(limit, plan, l) ==
    LET tokensUsed == TokensOf(l[FindActive(l, 1)])
        newLimit   == getTokenLimit("custom_max", Blocks(l))
    IN  IF plan = "pro" /\ tokensUsed > limit /\ newLimit > limit
        THEN newLimit
        ELSE limit

\* C15: once the loop runs the stored limit never decreases; a tick with an
\* active block leaves it at getTokenLimit("custom_max", the tick's blocks)
\* when the plan is pro, the tokens used exceed it and that value is larger,
\* and as it was otherwise; every other step (failed fetch, no active block,
\* sleep, stop) leaves it as it was; the plan, reset hour and timezone of the
\* options are never modified.
C15_QuotaChangesOnlyByEscalation ==
    /\ [][monitorOptions' = monitorOptions]_vars
    /\ [][pc \notin {"start", "initialFetch"} => tokenLimit' >= tokenLimit]_vars
    /\ [][(pc = "fetching" /\ tick'.kind \in {"rendered", "threw"})
            => tokenLimit' = Escalated(tokenLimit, monitorOptions.plan,
                                       data'.blocks.list)]_vars
    /\ [][(pc = "fetching" /\ tick'.kind \notin {"rendered", "threw"})
            => tokenLimit' = tokenLimit]_vars
    /\ [][pc = "sleeping" => tokenLimit' = tokenLimit]_vars
    /\ []((Rendered /\ monitorOptions.plan # "pro")
            => tick.tokenLimit = tick.tokenLimitBefore)

\* the limit raised to 50000 is still stored in a tick of 4500 tokens whose
\* payload has no completed session left
C15_Witness ==
    /\ Rendered
    /\ monitorOptions.plan = "pro"
    /\ tokenLimit = 50000
    /\ tick.tokensUsed = 4500
    /\ getTokenLimit("custom_max", data.blocks) = 7000

\* ---------------------------------------------------------------------------
\* The burn rate as a proration (SpecBurn)
\* ---------------------------------------------------------------------------

Min(a, b) == IF a < b THEN a ELSE b
Max(a, b) == IF a > b THEN a ELSE b

\* the block is not a gap and has a start time that reads as an instant
Counted(block) == ~block.isGap /\ block.startTime.kind = "iso"

\* the tokens of a counted block that fall into the 60 minutes before t
Contribution(block, t) ==
    LET windowStart == t - 60
        start == block.startTime.t
        effectiveEnd == IF block.isActive THEN t
                        ELSE IF block.actualEndTime.kind = "iso"
                             THEN block.actualEndTime.t
                             ELSE t
        overlap == Min(effectiveEnd, t) - Max(start, windowStart)
        duration == effectiveEnd - start
    IN  IF effectiveEnd < windowStart \/ overlap <= 0 \/ duration <= 0
        THEN Zero
        ELSE Rat(TokensOf(block) * overlap, duration)

\* the sum of the contributions of the counted blocks with index in S
RECURSIVE SumOfContributions(_, _, _)
SumOfContributions(l, S, t) ==
    IF S = {} THEN Zero
    ELSE LET i == CHOOSE j \in S : TRUE
         IN  RatAdd(IF Counted(l[i]) THEN Contribution(l[i], t) ELSE Zero,
                    SumOfContributions(l, S \ {i}, t))

Proration(l, t) == RatDiv(SumOfContributions(l, 1..Len(l), t), <<60, 1>>)

\* every counted block that is not active has an end that is absent or reads
\* as an instant, so that each term of the proration has a value
ProrationDefined(l) ==
    \A i \in 1..Len(l) :
        (Counted(l[i]) /\ ~l[i].isActive) => l[i].actualEndTime.kind # "bad"

\* no timestamp of the list is an unparseable string
Parseable(l) ==
    \A i \in 1..Len(l) : l[i].startTime.kind # "bad" /\ l[i].actualEndTime.kind # "bad"

Reverse(l) == [i \in 1..Len(l) |-> l[Len(l) + 1 - i]]

\* C16: calculateHourlyBurnRate(blocks, now) returns one sixtieth of the sum,
\* over the blocks that are not gaps and have a start time, of totalTokens *
\* overlap / duration (0 when the session ended before the window or overlap
\* or duration is not positive); the result is not negative and is the same
\* for the list in reverse order.
C16_BurnRateIsProration ==
    (pc = "return" /\ ProrationDefined(args.blocks))
        => /\ result = Returned(Proration(args.blocks, args.currentTime.date))
           /\ ~RatLess(result.val, Zero)
           /\ result = calculateHourlyBurnRate(Reverse(args.blocks), args.currentTime)

\* the same equation on the lists that hold no unparseable timestamp
BurnRateIsProrationOfParseable ==
    (pc = "return" /\ Parseable(args.blocks))
        => /\ result = Returned(Proration(args.blocks, args.currentTime.date))
           /\ ~RatLess(result.val, Zero)
           /\ result = calculateHourlyBurnRate(Reverse(args.blocks), args.currentTime)

\* ---------------------------------------------------------------------------
\* The reset instant on the projection zone's wall clock (SpecReset)
\* ---------------------------------------------------------------------------

\* the calendar day of instant t in a zone, counted from the epoch
DayIn(t, zone) == (t + ZoneOffset(zone)) \div 1440

\* C17: for every valid projection timezone, the host's or another, the
\* instant returned by getNextResetTime reads in that timezone as h:00 on the
\* selected calendar day of that timezone (today or tomorrow there), h being
\* the selected schedule entry; and the result carries the zone identifier of
\* the input instant when it has one.
C17_ResetOnProjectionWallClock ==
    (pc = "return" /\ ValidZone(ProjectionZone))
        => LET t == args.currentTime.date
               sel == Selected(HourIn(t, ProjectionZone), MinuteIn(t, ProjectionZone),
                               Schedule(args.customResetHour))
           IN  /\ HourIn(result.date, ProjectionZone) = sel.hour
               /\ MinuteIn(result.date, ProjectionZone) = 0
               /\ DayIn(result.date, ProjectionZone) = DayIn(t, ProjectionZone) + sel.day
               /\ args.currentTime.zoneName # ""
                    => result.zoneName = args.currentTime.zoneName

\* the same statement where the projection timezone has the host's offset
ResetOnWallClockOfHostOffset ==
    (pc = "return" /\ ValidZone(ProjectionZone)
        /\ ZoneOffset(ProjectionZone) = ZoneOffset(hostZone))
        => C17_ResetOnProjectionWallClock

\* the zone identifier of the result, whatever the projection timezone
ResultKeepsInputZoneName ==
    (pc = "return" /\ args.currentTime.zoneName # "")
        => result.zoneName = args.currentTime.zoneName

====
